---- MODULE Spec2Model ----
(***************************************************************************)
(* Model of mmpose/models/losses/regression_loss.py: the two regression    *)
(* losses SmoothL1Loss and WingLoss.                                       *)
(*                                                                         *)
(* Numbers.  The tensors hold exact rationals n / d (normalised, d > 0)    *)
(* instead of floating point values, so the model speaks of the real       *)
(* arithmetic the code approximates: rounding of float32 is not modelled.  *)
(* WingLoss needs natural logarithms of rationals.  A value of WingLoss is *)
(* kept exactly as  q + SUM_p l[p] * ln(p)  over the primes p of Basis,    *)
(* with q and l[p] rational: ln(a/b) is the sum of the prime valuations of *)
(* a minus those of b, and 1, ln 2, ln 3, ... are linearly independent     *)
(* over the rationals, so two such values are equal as reals exactly when  *)
(* their coefficients are equal.                                           *)
(***************************************************************************)
EXTENDS Integers, Sequences, FiniteSets, TLC

VARIABLES self, output, target, target_weight, loss

vars == <<self, output, target, target_weight, loss>>

(***************************************************************************)
(* Bound: a batch has at most MaxCells (sample, joint) cells, N * K.       *)
(***************************************************************************)
MaxCells == 3

----------------------------------------------------------------------------
(* Exact rationals.                                                        *)

Abs(i) == IF i < 0 THEN -i ELSE i

RECURSIVE GCD(_, _)
GCD(a, b) == IF b = 0 THEN a ELSE GCD(b, a % b)

Rat(n, d) ==
    LET g == GCD(Abs(n), Abs(d))
        s == IF d < 0 THEN -1 ELSE 1
    IN  [n |-> (s * n) \div g, d |-> (s * d) \div g]

R(i) == [n |-> i, d |-> 1]

RAdd(a, b) == Rat(a.n * b.d + b.n * a.d, a.d * b.d)
RSub(a, b) == Rat(a.n * b.d - b.n * a.d, a.d * b.d)
RMul(a, b) == Rat(a.n * b.n, a.d * b.d)
RDiv(a, b) == Rat(a.n * b.d, a.d * b.n)
RAbs(a) == [n |-> Abs(a.n), d |-> a.d]
RLt(a, b) == a.n * b.d < b.n * a.d

RECURSIVE RSum(_)
RSum(s) == IF s = <<>> THEN R(0) ELSE RAdd(Head(s), RSum(Tail(s)))

----------------------------------------------------------------------------
(* Values q + SUM_p l[p] * ln(p).                                          *)

Basis == {2, 3, 5, 7}

RECURSIVE Val(_, _)
Val(p, n) == IF n % p = 0 THEN 1 + Val(p, n \div p) ELSE 0

RECURSIVE Strip(_, _)
Strip(p, n) == IF n % p = 0 THEN Strip(p, n \div p) ELSE n

BasisSmooth(n) == Strip(2, Strip(3, Strip(5, Strip(7, n)))) = 1

LNum(q, l) == [q |-> q, l |-> l]
LRat(q) == LNum(q, [p \in Basis |-> R(0)])
LAdd(a, b) == LNum(RAdd(a.q, b.q), [p \in Basis |-> RAdd(a.l[p], b.l[p])])
LSub(a, b) == LNum(RSub(a.q, b.q), [p \in Basis |-> RSub(a.l[p], b.l[p])])
LScale(r, a) == LNum(RMul(r, a.q), [p \in Basis |-> RMul(r, a.l[p])])

\* ln(r) for a rational r > 0 whose numerator and denominator factor over Basis
\* (no other case: any other argument is not representable and has no value).
Log(r) ==
    CASE r.n > 0 /\ BasisSmooth(r.n) /\ BasisSmooth(r.d) ->
        LNum(R(0), [p \in Basis |-> R(Val(p, r.n) - Val(p, r.d))])

RECURSIVE LSum(_)
LSum(s) == IF s = <<>> THEN LRat(R(0)) ELSE LAdd(Head(s), LSum(Tail(s)))

----------------------------------------------------------------------------
(* Tensors of shape (N, K, 2): sequences of N samples of K joints of 2     *)
(* coordinates.                                                            *)

Size0(t) == Len(t)
Size1(t) == Len(t[1])

\* torch.Tensor.mul, elementwise
Mul(a, b) ==
    [n \in DOMAIN a |-> [k \in DOMAIN a[n] |->
        [c \in DOMAIN a[n][k] |-> RMul(a[n][k][c], b[n][k][c])]]]

\* Tensor.abs, elementwise
AbsT(a) ==
    [n \in DOMAIN a |-> [k \in DOMAIN a[n] |-> [c \in DOMAIN a[n][k] |-> RAbs(a[n][k][c])]]]

\* elementwise a - b
Sub(a, b) ==
    [n \in DOMAIN a |-> [k \in DOMAIN a[n] |->
        [c \in DOMAIN a[n][k] |-> RSub(a[n][k][c], b[n][k][c])]]]

RECURSIVE Concat(_)
Concat(ss) == IF ss = <<>> THEN <<>> ELSE Head(ss) \o Concat(Tail(ss))

\* the elements of one sample, and of a tensor, in storage order
FlatSample(s) == Concat(s)
Flat(t) == Concat([n \in DOMAIN t |-> FlatSample(t[n])])

----------------------------------------------------------------------------
(* torch.nn.functional.smooth_l1_loss, as SmoothL1Loss.__init__ binds it:  *)
(* beta = 1, reduction = 'mean'.                                           *)

Half == Rat(1, 2)

\* one element: 0.5 * x^2 when |x| < 1, |x| - 0.5 otherwise
smooth_l1(x) ==
    IF RLt(RAbs(x), R(1)) THEN RMul(Half, RMul(x, x)) ELSE RSub(RAbs(x), Half)

\* the elementwise loss of a tensor of differences
smooth_l1_each(x) ==
    [n \in DOMAIN x |-> [k \in DOMAIN x[n] |->
        [c \in DOMAIN x[n][k] |-> smooth_l1(x[n][k][c])]]]

\* variant: reduction = 'sum' in place of the mean
smooth_l1_loss_Sum(input, tgt) == RSum(Flat(smooth_l1_each(Sub(input, tgt))))

\* the mean of the elementwise loss over every element of the tensor
smooth_l1_loss(input, tgt) ==
    LET z == Flat(smooth_l1_each(Sub(input, tgt)))
    IN  RDiv(RSum(z), R(Len(z)))

----------------------------------------------------------------------------
(* SmoothL1Loss                                                            *)

\* __init__(use_target_weight, loss_weight)
SmoothL1Loss(utw, lw) ==
    [cls |-> "SmoothL1Loss", use_target_weight |-> utw, loss_weight |-> lw]

\* variant: only output is multiplied by target_weight
SmoothL1Criterion_OutOnly(s, out, tgt, tw) ==
    IF s.use_target_weight
    THEN smooth_l1_loss(Mul(out, tw), tgt)
    ELSE smooth_l1_loss(out, tgt)

\* variant: use_target_weight is not looked at
SmoothL1Criterion_NoWeight(s, out, tgt, tw) == smooth_l1_loss(out, tgt)

\* the criterion's result of forward, before it is normalised
SmoothL1Criterion(s, out, tgt, tw) ==
    IF s.use_target_weight
    THEN smooth_l1_loss(Mul(out, tw), Mul(tgt, tw))
    ELSE smooth_l1_loss(out, tgt)

\* variant: the division by num_joints is left out
SmoothL1Return_NoJoints(l, num_joints, lw) == RMul(l, lw)

\* return loss / num_joints * self.loss_weight
SmoothL1Return(l, num_joints, lw) == RMul(RDiv(l, R(num_joints)), lw)

\* forward(output, target, target_weight): the value returned
SmoothL1Forward(s, out, tgt, tw) ==
    LET num_joints == Size1(out)
    IN  SmoothL1Return(SmoothL1Criterion(s, out, tgt, tw), num_joints, s.loss_weight)

----------------------------------------------------------------------------
(* WingLoss                                                                *)

\* __init__(omega, epsilon, use_target_weight, loss_weight)
WingLoss(om, eps, utw, lw) ==
    [cls |-> "WingLoss", omega |-> om, epsilon |-> eps,
     use_target_weight |-> utw, loss_weight |-> lw]

\* variant: c = omega * (1.0 + math.log(1.0 + omega / epsilon))
WingC_Plus(s) ==
    LScale(s.omega, LAdd(LRat(R(1)), Log(RAdd(R(1), RDiv(s.omega, s.epsilon)))))

\* c = omega * (1.0 - math.log(1.0 + omega / epsilon))
WingC(s) ==
    LScale(s.omega, LSub(LRat(R(1)), Log(RAdd(R(1), RDiv(s.omega, s.epsilon)))))

\* variant: torch.gt in place of torch.lt
WingLt_Swapped(d, om) == RLt(om, d)

\* torch.lt(delta, omega), one element
WingLt(d, om) == RLt(d, om)

\* torch.where(lt(delta, omega), omega * log(1.0 + delta / epsilon), delta - c),
\* one element
WingElem(s, d) ==
    IF WingLt(d, s.omega)
    THEN LScale(s.omega, Log(RAdd(R(1), RDiv(d, s.epsilon))))
    ELSE LSub(LRat(d), WingC(s))

\* variant: torch.sum over the batch in place of torch.mean
WingReduce_Sum(losses) ==
    LSum([n \in DOMAIN losses |-> LSum(FlatSample(losses[n]))])

\* torch.mean(torch.sum(losses, dim=[1, 2]), dim=0)
WingReduce(losses) ==
    LET sums == [n \in DOMAIN losses |-> LSum(FlatSample(losses[n]))]
    IN  LScale(Rat(1, Len(sums)), LSum(sums))

\* criterion(pred, target)
criterion(s, pred, tgt) ==
    LET delta == AbsT(Sub(tgt, pred))
        losses == [n \in DOMAIN delta |-> [k \in DOMAIN delta[n] |->
                      [c \in DOMAIN delta[n][k] |-> WingElem(s, delta[n][k][c])]]]
    IN  WingReduce(losses)

\* variant: only output is multiplied by target_weight
WingCriterion_OutOnly(s, out, tgt, tw) ==
    IF s.use_target_weight
    THEN criterion(s, Mul(out, tw), tgt)
    ELSE criterion(s, out, tgt)

\* the criterion's result of forward, before it is normalised
WingCriterion(s, out, tgt, tw) ==
    IF s.use_target_weight
    THEN criterion(s, Mul(out, tw), Mul(tgt, tw))
    ELSE criterion(s, out, tgt)

\* variant: loss / (num_joints * self.loss_weight)
WingReturn_DivByWeight(l, num_joints, lw) ==
    LScale(RDiv(R(1), RMul(R(num_joints), lw)), l)

\* return loss / num_joints * self.loss_weight
WingReturn(l, num_joints, lw) == LScale(lw, LScale(Rat(1, num_joints), l))

\* forward(output, target, target_weight): the value returned
WingForward(s, out, tgt, tw) ==
    LET num_joints == Size1(out)
    IN  WingReturn(WingCriterion(s, out, tgt, tw), num_joints, s.loss_weight)

\* variant: forward clears self.use_target_weight
SelfAfterForward_Clears(s) == [s EXCEPT !.use_target_weight = FALSE]

\* what a forward call leaves in the instance's attributes: neither forward
\* nor criterion assigns to self
SelfAfterForward(s) == s

\* what a forward call leaves in an argument tensor: mul, abs, where, sum and
\* mean all return new tensors
ArgAfterForward(t) == t

----------------------------------------------------------------------------
(* Inputs.                                                                 *)

LossWeights == {R(1), Rat(3, 2)}

\* (omega, epsilon): the defaults (10, 2) and two small curves
WingShapes == {<<R(10), R(2)>>, <<R(2), R(1)>>, <<R(1), R(2)>>}

Instances ==
    {SmoothL1Loss(u, w) : u \in BOOLEAN, w \in LossWeights}
    \cup {WingLoss(p[1], p[2], u, w) : p \in WingShapes, u \in BOOLEAN, w \in LossWeights}

\* One joint of a batch: its two output coordinates, target coordinates and
\* weights.
Joint(ox, oy, tx, ty, wx, wy) ==
    [o |-> <<ox, oy>>, t |-> <<tx, ty>>, w |-> <<wx, wy>>]

JointCases ==
    << Joint(R(0), R(0), R(1), R(0), R(1), R(1)),
       Joint(Half, R(3), R(1), R(1), R(0), R(0)),
       Joint(R(2), R(-1), R(2), R(-1), R(1), R(2)),
       Joint(R(-1), R(2), R(2), Rat(3, 2), Half, R(2)) >>

Shapes == {sh \in (1..MaxCells) \X (1..MaxCells) : sh[1] * sh[2] <= MaxCells}

\* the batches of shape (N, K, 2), as the case of each joint
Batches(N, K) == [1..N -> [1..K -> 1..Len(JointCases)]]

Outputs(b) == [n \in DOMAIN b |-> [k \in DOMAIN b[n] |-> JointCases[b[n][k]].o]]
Targets(b) == [n \in DOMAIN b |-> [k \in DOMAIN b[n] |-> JointCases[b[n][k]].t]]
Weights(b) == [n \in DOMAIN b |-> [k \in DOMAIN b[n] |-> JointCases[b[n][k]].w]]

NotCalled == [called |-> FALSE]
Returned(v) == [called |-> TRUE, value |-> v]

----------------------------------------------------------------------------
(* The state machine: an instance, the tensors its caller holds, and the   *)
(* value the last forward call returned.                                   *)

Init ==
    /\ self \in Instances
    /\ \E sh \in Shapes : \E b \in Batches(sh[1], sh[2]) :
          /\ output = Outputs(b)
          /\ target = Targets(b)
          /\ target_weight = Weights(b)
    /\ loss = NotCalled

\* SmoothL1Loss.forward(output, target, target_weight)
SmoothL1LossForward ==
    /\ self.cls = "SmoothL1Loss"
    /\ loss' = Returned(SmoothL1Forward(self, output, target, target_weight))
    /\ self' = SelfAfterForward(self)
    /\ output' = ArgAfterForward(output)
    /\ target' = ArgAfterForward(target)
    /\ target_weight' = ArgAfterForward(target_weight)

\* WingLoss.forward(output, target, target_weight)
WingLossForward ==
    /\ self.cls = "WingLoss"
    /\ loss' = Returned(WingForward(self, output, target, target_weight))
    /\ self' = SelfAfterForward(self)
    /\ output' = ArgAfterForward(output)
    /\ target' = ArgAfterForward(target)
    /\ target_weight' = ArgAfterForward(target_weight)

\* The caller puts other data into one joint of the tensors it will pass next.
NewBatch ==
    /\ \E n \in DOMAIN output : \E k \in DOMAIN output[n] : \E j \in DOMAIN JointCases :
          /\ output' = [output EXCEPT ![n][k] = JointCases[j].o]
          /\ target' = [target EXCEPT ![n][k] = JointCases[j].t]
          /\ target_weight' = [target_weight EXCEPT ![n][k] = JointCases[j].w]
    /\ loss' = NotCalled
    /\ UNCHANGED self

Next == SmoothL1LossForward \/ WingLossForward \/ NewBatch

Spec == Init /\ [][Next]_vars

----------------------------------------------------------------------------
(* Notation of the properties.                                             *)

IsSmooth == self.cls = "SmoothL1Loss"
IsWing == self.cls = "WingLoss"
N == Size0(output)
K == Size1(output)
Idx == {<<n, k, c>> : n \in 1..N, k \in 1..K, c \in 1..2}
At(t, i) == t[i[1]][i[2]][i[3]]
RZero == R(0)
LZero == LRat(R(0))

\* the error output - target of element i, and the error the loss sees
Err(i) == RSub(At(output, i), At(target, i))
WErr(i) == RMul(At(target_weight, i), Err(i))

RECURSIVE RSumOver(_, _)
RSumOver(f, S) ==
    IF S = {} THEN R(0)
    ELSE LET x == CHOOSE y \in S : TRUE IN RAdd(f[x], RSumOver(f, S \ {x}))

RECURSIVE LSumOver(_, _)
LSumOver(f, S) ==
    IF S = {} THEN LRat(R(0))
    ELSE LET x == CHOOSE y \in S : TRUE IN LAdd(f[x], LSumOver(f, S \ {x}))

\* s(x) = 0.5 * x^2 when |x| < 1 and |x| - 0.5 when |x| >= 1
SOf(x) ==
    IF RLt(RAbs(x), R(1)) THEN Rat(x.n * x.n, 2 * x.d * x.d)
    ELSE RSub(RAbs(x), Rat(1, 2))

\* C = omega * (1 - ln(1 + omega / epsilon)), as omega - omega * ln(...)
COf(om, eps) == LSub(LRat(om), LScale(om, Log(RAdd(R(1), RDiv(om, eps)))))

\* w(d) = omega * ln(1 + d / epsilon) when d < omega and d - C otherwise
WOf(om, eps, d) ==
    IF RLt(d, om) THEN LScale(om, Log(RAdd(R(1), RDiv(d, eps))))
    ELSE LSub(LRat(d), COf(om, eps))

\* (mean over all N * K * 2 elements of s(e[i])) / K * loss_weight
SmoothOfErrors(e) ==
    RMul(RDiv(RDiv(RSumOver([i \in Idx |-> SOf(e[i])], Idx), R(N * K * 2)), R(K)),
         self.loss_weight)

\* ((1 / N) * sum over samples of the sum over joints and coordinates of
\* w(|e[i]|)) / K * loss_weight
WingOfErrors(e) ==
    LET perSample(n) == LSumOver([i \in Idx |-> WOf(self.omega, self.epsilon, RAbs(e[i]))],
                                 {i \in Idx : i[1] = n})
        total == LSumOver([n \in 1..N |-> perSample(n)], 1..N)
    IN  LScale(self.loss_weight, LScale(Rat(1, K), LScale(Rat(1, N), total)))

----------------------------------------------------------------------------
\* C1: SmoothL1Loss.forward with use_target_weight = false returns the mean over
\* all N*K*2 elements of s(output - target), divided by K and multiplied by
\* loss_weight.
C1_SmoothL1ClosedForm ==
    (IsSmooth /\ loss.called /\ ~self.use_target_weight)
        => loss.value = SmoothOfErrors([i \in Idx |-> Err(i)])

\* a call without weights on a batch of several joints with an error below 1,
\* an error of at least 1 and a nonzero result
C1_Witness ==
    /\ IsSmooth /\ loss.called /\ ~self.use_target_weight
    /\ K >= 2 /\ self.loss_weight # R(1)
    /\ \E i \in Idx : Err(i) # RZero /\ RLt(RAbs(Err(i)), R(1))
    /\ \E i \in Idx : ~RLt(RAbs(Err(i)), R(1))

\* C2: WingLoss.forward with use_target_weight = false returns the batch mean of
\* the per-sample sums of w(|output - target|), divided by K and multiplied by
\* loss_weight.
C2_WingClosedForm ==
    (IsWing /\ loss.called /\ ~self.use_target_weight)
        => loss.value = WingOfErrors([i \in Idx |-> Err(i)])

\* a call without weights on several samples with errors below, at and above
\* omega
C2_Witness ==
    /\ IsWing /\ loss.called /\ ~self.use_target_weight
    /\ N >= 2 /\ self.loss_weight # R(1)
    /\ \E i \in Idx : Err(i) # RZero /\ RLt(RAbs(Err(i)), self.omega)
    /\ \E i \in Idx : RAbs(Err(i)) = self.omega
    /\ \E i \in Idx : RLt(self.omega, RAbs(Err(i)))

\* The scenario of C3: N = 1, K = 1, output (0, 0), target (1, 0), weights
\* (1, 1), use_target_weight = false, loss_weight = 1.
C3_Scenario ==
    /\ IsSmooth /\ loss.called
    /\ ~self.use_target_weight /\ self.loss_weight = R(1)
    /\ output = << << <<R(0), R(0)>> >> >>
    /\ target = << << <<R(1), R(0)>> >> >>
    /\ target_weight = << << <<R(1), R(1)>> >> >>

\* C3 as stated: in the scenario SmoothL1Loss returns 0.5.
C3_ReturnsHalf == C3_Scenario => loss.value = Rat(1, 2)

\* C3, amended: in the scenario SmoothL1Loss returns 0.25, the mean of
\* s(-1) = 0.5 and s(0) = 0 over the two coordinates.
C3_ReturnsQuarter == C3_Scenario => loss.value = Rat(1, 4)

\* the scenario's call has returned
C3_Witness == C3_Scenario /\ loss.value # Rat(1, 2)

----------------------------------------------------------------------------
\* the value forward returns for instance s on the given arguments
Result(s, out, tgt, tw) ==
    IF s.cls = "SmoothL1Loss" THEN SmoothL1Forward(s, out, tgt, tw)
    ELSE WingForward(s, out, tgt, tw)

Zero == IF IsSmooth THEN RZero ELSE LZero
Twice(v) == IF IsSmooth THEN RMul(R(2), v) ELSE LScale(R(2), v)
ClosedForm(e) == IF IsSmooth THEN SmoothOfErrors(e) ELSE WingOfErrors(e)

\* tensor t with value v put at every element whose target_weight is 0
Masked(t, v) ==
    [n \in DOMAIN t |-> [k \in DOMAIN t[n] |-> [c \in DOMAIN t[n][k] |->
        IF target_weight[n][k][c] = RZero THEN v ELSE t[n][k][c]]]]

\* the tensor of output's shape with v at every element
Const(v) == [n \in DOMAIN output |-> [k \in DOMAIN output[n] |-> <<v, v>>]]

AltWeights == {Const(R(0)), Const(R(-1)), Const(Rat(1, 2)), Const(R(3))}

\* C4: with use_target_weight = true an element whose target_weight is 0
\* contributes 0 whatever output and target hold there (the result is that of
\* the batch with other values at those elements), and all-zero weights give 0.
C4_ZeroWeightMasks ==
    (loss.called /\ self.use_target_weight) =>
        /\ loss.value = Result(self, Masked(output, R(7)), Masked(target, R(0)),
                               target_weight)
        /\ (\A i \in Idx : At(target_weight, i) = RZero) => loss.value = Zero

\* a weighted call where a zero weight hides a nonzero error and another
\* element still contributes
C4_Witness ==
    /\ loss.called /\ self.use_target_weight
    /\ \E i \in Idx : At(target_weight, i) = RZero /\ Err(i) # RZero
    /\ \E i \in Idx : At(target_weight, i) # RZero
    /\ loss.value # Zero

\* C5: when output equals target element for element both losses return 0,
\* with or without use_target_weight and whatever target_weight is.
C5_ZeroErrorZeroLoss ==
    (loss.called /\ output = target) =>
        /\ loss.value = Zero
        /\ \A w \in AltWeights : Result(self, output, target, w) = Zero

\* a weighted WingLoss call on equal, nonzero output and target with weights
\* other than 1
C5_Witness ==
    /\ loss.called /\ output = target /\ IsWing /\ self.use_target_weight
    /\ K >= 2
    /\ \E i \in Idx : At(output, i) # RZero /\ At(target_weight, i) = R(2)

\* C6: the result with loss_weight = 2 * w is twice the result with
\* loss_weight = w.
C6_LinearInLossWeight ==
    loss.called =>
        Result([self EXCEPT !.loss_weight = RMul(R(2), @)],
               output, target, target_weight) = Twice(loss.value)

\* a call with a nonzero result and a loss_weight other than 1
C6_Witness == loss.called /\ loss.value # Zero /\ self.loss_weight # R(1) /\ K >= 2

\* the batch of n copies of the first sample of t
Repeat(t, n) == [m \in 1..n |-> t[1]]

\* C7: a batch that repeats one sample N times gives the result of that sample
\* alone, for every N >= 1.
C7_BatchSizeInvariant ==
    /\ (loss.called /\ N = 1) =>
          \A n \in 1..MaxCells :
              Result(self, Repeat(output, n), Repeat(target, n),
                     Repeat(target_weight, n)) = loss.value
    /\ (/\ loss.called
        /\ output = Repeat(output, N)
        /\ target = Repeat(target, N)
        /\ target_weight = Repeat(target_weight, N)) =>
          loss.value = Result(self, Repeat(output, 1), Repeat(target, 1),
                              Repeat(target_weight, 1))

\* a call on a batch of several equal samples with a nonzero result
C7_Witness ==
    /\ loss.called /\ N >= 2 /\ loss.value # Zero
    /\ output = Repeat(output, N)
    /\ target = Repeat(target, N)
    /\ target_weight = Repeat(target_weight, N)

\* delta of element i as criterion computes it from the arguments forward
\* passes
Delta(i) ==
    IF self.use_target_weight
    THEN RAbs(RSub(RMul(At(target, i), At(target_weight, i)),
                   RMul(At(output, i), At(target_weight, i))))
    ELSE RAbs(RSub(At(target, i), At(output, i)))

\* the logarithmic branch, taken up to and including d = omega
WLogUpTo(om, eps, d) ==
    IF RLt(om, d) THEN LSub(LRat(d), COf(om, eps))
    ELSE LScale(om, Log(RAdd(R(1), RDiv(d, eps))))

\* C8: at d = omega WingLoss.criterion takes the linear branch and its value
\* there is omega * ln(1 + omega / epsilon), the value of the logarithmic
\* branch: the result is the one obtained with the logarithmic branch taken at
\* d = omega.
C8_ContinuousAtOmega ==
    (loss.called /\ IsWing) =>
        /\ ~WingLt(self.omega, self.omega)
        /\ WingElem(self, self.omega)
              = LScale(self.omega, Log(RAdd(R(1), RDiv(self.omega, self.epsilon))))
        /\ LET perSample(n) ==
                   LSumOver([i \in Idx |-> WLogUpTo(self.omega, self.epsilon, Delta(i))],
                            {i \in Idx : i[1] = n})
               total == LSumOver([n \in 1..N |-> perSample(n)], 1..N)
           IN  loss.value = LScale(self.loss_weight,
                                   LScale(Rat(1, K), LScale(Rat(1, N), total)))

\* a WingLoss call on a batch with an element at d = omega and one below it
C8_Witness ==
    /\ loss.called /\ IsWing
    /\ \E i \in Idx : Delta(i) = self.omega
    /\ \E i \in Idx : Delta(i) # RZero /\ RLt(Delta(i), self.omega)

\* C9: no step changes the instance's configuration, and a forward call leaves
\* its argument tensors as they were and returns the value that the
\* configuration and the arguments determine.
C9_ForwardIsPure ==
    [][/\ self' = self
       /\ loss'.called =>
            /\ output' = output
            /\ target' = target
            /\ target_weight' = target_weight
            /\ loss'.value = Result(self, output, target, target_weight)]_vars

\* a forward call has returned a nonzero value on an instance that is still one
\* of the constructed ones
C9_Witness == loss.called /\ self \in Instances /\ loss.value # Zero /\ N >= 2

\* C10: with use_target_weight = true the result is that of the unweighted loss
\* on (output * target_weight, target * target_weight), which is the loss of
\* the error target_weight * (output - target); with use_target_weight = false
\* the result does not depend on target_weight.
C10_WeightScalesError ==
    /\ (loss.called /\ self.use_target_weight) =>
          /\ loss.value = Result([self EXCEPT !.use_target_weight = FALSE],
                                 Mul(output, target_weight),
                                 Mul(target, target_weight), target_weight)
          /\ loss.value = ClosedForm([i \in Idx |-> WErr(i)])
    /\ (loss.called /\ ~self.use_target_weight) =>
          \A w \in AltWeights : Result(self, output, target, w) = loss.value

\* a weighted call whose weights, other than 0 and 1, change the result
C10_Witness ==
    /\ loss.called /\ self.use_target_weight
    /\ \E i \in Idx : At(target_weight, i) \notin {R(0), R(1)} /\ Err(i) # RZero
    /\ loss.value # ClosedForm([i \in Idx |-> Err(i)])

====
